---- MODULE Spec2Model ----
(***************************************************************************)
(* Cart and catalog stores of the VietKy storefront (src/src/App.js).      *)
(*                                                                         *)
(* The state is the App component's store state (products, cart), its      *)
(* search controls (query, category, sort), the coupon field of the        *)
(* CheckoutFooter, the values the last render computed from them (view)    *)
(* and the two localStorage keys it writes.  Each action is one event      *)
(* handler of App together with the render and the effect React flushes    *)
(* after it (useEffect save, lines 207-208).  Names and categories are     *)
(* written without diacritics.  The drawers' open flags, the tab and the   *)
(* quick-view                                                              *)
(* selection are presentation state that no store operation reads: the     *)
(* quick view shows a product of the catalog, so its "add" button is       *)
(* addToCart of a catalog product.  The AdminPanel's local draft is the    *)
(* argument of onSave.                                                     *)
(*                                                                         *)
(* Identifiers are produced by uid() (line 29), a slice of a random        *)
(* number's base-36 digits: every call is a free choice from Ids.          *)
(* Ratings are kept in tenths (4.8 is 48).                                 *)
(*                                                                         *)
(* A stored text is kept as the tree of the tokens JSON.stringify emits:   *)
(* [num |-> n], [str |-> s], [null |-> TRUE], [arr |-> <<texts>>],         *)
(* [obj |-> <<<<key, text>>, ..>>]; [bad |-> TRUE] is a text JSON.parse    *)
(* rejects and Missing an absent key.                                      *)
(***************************************************************************)
EXTENDS Integers, Sequences, FiniteSets, TLC

VARIABLES products, cart, localStorage, ev, hist, query, category, sort,
          coupon, view

vars ==
  <<products, cart, localStorage, ev, hist, query, category, sort, coupon,
    view>>

\* ------------------------------ bounds ---------------------------------
NumIds == 2
NumDefaults == 2
MaxCatalog == 3
MaxQty == 2
MaxArg == 2

\* The values uid() can return.
Ids == 1..NumIds

\* Quantity arguments handed to addToCart.
QtyArgs == 0..MaxArg

NULL == "null"

\* ------------------------------ data -----------------------------------
DefaultContent(k) ==
  CASE k = 1 -> [name |-> "Ao thun Viet Ky (Trang)", price |-> 169000,
                 category |-> "Ao thun", stock |-> 120, rating |-> 48,
                 images |-> <<"/img-1.jpg">>, description |-> "d1"]
    [] k = 2 -> [name |-> "Coc su Viet Ky", price |-> 99000,
                 category |-> "Phu kien", stock |-> 80, rating |-> 47,
                 images |-> <<"/img-3.jpg">>, description |-> "d2"]
    [] k = 3 -> [name |-> "Moc khoa Viet Ky", price |-> 49000,
                 category |-> "Phu kien", stock |-> 200, rating |-> 46,
                 images |-> <<"/img-2.jpg">>, description |-> "d3"]
    [] k = 4 -> [name |-> "So tay da Viet Ky", price |-> 110000,
                 category |-> "Phu kien", stock |-> 60, rating |-> 49,
                 images |-> <<"/img-5.jpg">>, description |-> "d4"]
    [] k = 5 -> [name |-> "Binh giu nhiet Viet Ky", price |-> 130000,
                 category |-> "Phu kien", stock |-> 70, rating |-> 48,
                 images |-> <<"/img-6.jpg">>, description |-> "d5"]
    [] OTHER -> [name |-> "But ky Viet Ky", price |-> 99000,
                 category |-> "Phu kien", stock |-> 150, rating |-> 45,
                 images |-> <<"/img-4.jpg">>, description |-> "d6"]

WithId(c, id) ==
  [id |-> id, name |-> c.name, price |-> c.price, category |-> c.category,
   stock |-> c.stock, rating |-> c.rating, images |-> c.images,
   description |-> c.description]

\* DEFAULT_PRODUCTS, its first NumDefaults entries, with the identifiers
\* the uid() calls of lines 43..93 returned.
DEFAULT_PRODUCTS(ids) ==
  [k \in 1..NumDefaults |-> WithId(DefaultContent(k), ids[k])]

\* The draft of the AdminPanel before any field is typed (lines 828-837).
empty ==
  [name |-> "", price |-> 0, category |-> "Ao thun", stock |-> 0,
   rating |-> 48, images |-> <<NULL>>, description |-> ""]

\* What the admin form can hold when "Luu san pham" is pressed: a draft with
\* a name and a price typed in, or a listed product loaded with "Sua".
DraftContents ==
  {[empty EXCEPT !.name = "Ao moi", !.price = 250000]}
    \cup {DefaultContent(k) : k \in 1..NumDefaults}

\* "no product" in an event record.
NoProduct == WithId(empty, 0)

\* ev is the last operation: its name, its arguments, and whether an entry
\* with the given identifier was there when it ran.
NoEvent ==
  [op |-> "init", id |-> 0, qty |-> 0, p |-> NoProduct, hit |-> FALSE]

Event(op, id, qty, p, hit) ==
  [op |-> op, id |-> id, qty |-> qty, p |-> p, hit |-> hit]

\* ------------------------------ helpers --------------------------------
Max(a, b) == IF a >= b THEN a ELSE b

\* Array.prototype.findIndex, 1-based; 0 when nothing matches (JS: -1).
FindIndex(list, id) ==
  IF \E k \in 1..Len(list) : list[k].id = id
    THEN CHOOSE k \in 1..Len(list) :
           /\ list[k].id = id
           /\ \A j \in 1..(k - 1) : list[j].id # id
    ELSE 0

\* Array.prototype.filter((x) => x.id !== id)
FilterOutId(list, id) == SelectSeq(list, LAMBDA x : x.id # id)

\* p.images?.[0] || null
FirstImage(p) == IF Len(p.images) > 0 THEN p.images[1] ELSE NULL

IdsOf(list) == {list[k].id : k \in 1..Len(list)}

HasLine(c, id) == id \in IdsOf(c)

QtyOf(c, id) == IF HasLine(c, id) THEN c[FindIndex(c, id)].qty ELSE 0

\* ------------------------------ store operations -----------------------
\* addToCart that never merges: every call appends a line.
addToCart_Append(prev, p, qty) ==
  Append(prev, [id |-> p.id, name |-> p.name, price |-> p.price,
                qty |-> qty, image |-> FirstImage(p)])

\* addToCart whose merge stores the new quantity instead of adding it.
addToCart_Overwrite(prev, p, qty) ==
  IF FindIndex(prev, p.id) # 0
    THEN [k \in 1..Len(prev) |->
            IF prev[k].id = p.id
              THEN [prev[k] EXCEPT !.qty = qty]
              ELSE prev[k]]
    ELSE Append(prev, [id |-> p.id, name |-> p.name, price |-> p.price,
                       qty |-> qty, image |-> FirstImage(p)])

\* addToCart's updater (lines 229-245)
addToCart(prev, p, qty) ==
  IF FindIndex(prev, p.id) # 0
    THEN [k \in 1..Len(prev) |->
            IF prev[k].id = p.id
              THEN [prev[k] EXCEPT !.qty = prev[k].qty + qty]
              ELSE prev[k]]
    ELSE Append(prev, [id |-> p.id, name |-> p.name, price |-> p.price,
                       qty |-> qty, image |-> FirstImage(p)])

\* removal by splice(findIndex(..), 1): a missing identifier (index -1)
\* takes the last entry away.
SpliceOutId(list, id) ==
  LET idx == IF FindIndex(list, id) # 0 THEN FindIndex(list, id)
             ELSE Len(list) IN
  [k \in 1..(Len(list) - (IF Len(list) > 0 THEN 1 ELSE 0)) |->
     IF k < idx THEN list[k] ELSE list[k + 1]]

removeFromCart_Splice(prev, id) == SpliceOutId(prev, id)

\* removeFromCart's updater (line 250)
removeFromCart(prev, id) == FilterOutId(prev, id)

\* updateQty without the clamp.
updateQty_NoClamp(prev, id, qty) ==
  [k \in 1..Len(prev) |->
     IF prev[k].id = id
       THEN [prev[k] EXCEPT !.qty = qty]
       ELSE prev[k]]

\* updateQty's updater (lines 252-254)
updateQty(prev, id, qty) ==
  [k \in 1..Len(prev) |->
     IF prev[k].id = id
       THEN [prev[k] EXCEPT !.qty = Max(1, qty)]
       ELSE prev[k]]

\* upsertProduct that drops the old entry and puts the new one in front.
upsertProduct_MoveToFront(list, p, fresh) ==
  IF FindIndex(list, p.id) # 0
    THEN <<p>> \o SelectSeq(list, LAMBDA x : x.id # p.id)
    ELSE <<[p EXCEPT !.id = fresh]>> \o list

\* upsertProduct's updater (lines 268-276); fresh is what uid() returns.
upsertProduct(list, p, fresh) ==
  LET idx == FindIndex(list, p.id) IN
  IF idx # 0
    THEN [list EXCEPT ![idx] = p]
    ELSE <<[p EXCEPT !.id = fresh]>> \o list

deleteProduct_Splice(list, id) == SpliceOutId(list, id)

\* deleteProduct's updater (line 280)
deleteProduct(list, id) == FilterOutId(list, id)

\* ------------------------------ texts ----------------------------------
Char(s, i) == SubSeq(s, i, i)

Whitespace == {" ", "\t", "\n"}

RECURSIVE trimStart(_)
trimStart(s) ==
  IF Len(s) > 0 /\ Char(s, 1) \in Whitespace
    THEN trimStart(SubSeq(s, 2, Len(s)))
    ELSE s

RECURSIVE trimEnd(_)
trimEnd(s) ==
  IF Len(s) > 0 /\ Char(s, Len(s)) \in Whitespace
    THEN trimEnd(SubSeq(s, 1, Len(s) - 1))
    ELSE s

\* String.prototype.trim that leaves the leading whitespace in place.
trim_EndOnly(s) == trimEnd(s)

\* String.prototype.trim
trim(s) == trimEnd(trimStart(s))

LowerLetters == "abcdefghijklmnopqrstuvwxyz"

UpperLetters == "ABCDEFGHIJKLMNOPQRSTUVWXYZ"

\* The letter of alphabet `to` at the place c has in alphabet `from`; c
\* itself when it is not in `from`.
MapChar(c, from, to) ==
  IF \E k \in 1..Len(from) : Char(from, k) = c
    THEN Char(to, CHOOSE k \in 1..Len(from) : Char(from, k) = c)
    ELSE c

RECURSIVE MapText(_, _, _)
MapText(s, from, to) ==
  IF Len(s) = 0 THEN s
  ELSE MapChar(Char(s, 1), from, to)
         \o MapText(SubSeq(s, 2, Len(s)), from, to)

toUpperCase(s) == MapText(s, LowerLetters, UpperLetters)

toLowerCase(s) == MapText(s, UpperLetters, LowerLetters)

\* String.prototype.includes
includes(s, part) ==
  \E k \in 0..(Len(s) - Len(part)) : SubSeq(s, k + 1, k + Len(part)) = part

\* ------------------------------ checkout -------------------------------
\* total (lines 210-213)
RECURSIVE total(_)
total(c) ==
  IF Len(c) = 0 THEN 0
  ELSE total(SubSeq(c, 1, Len(c) - 1)) + c[Len(c)].price * c[Len(c)].qty

\* the shipping fee waived from 500000 on.
shippingFee_FromThreshold(t) == IF t >= 500000 THEN 0 ELSE 30000

\* shippingFee (line 257)
shippingFee(t) == IF t > 500000 THEN 0 ELSE 30000

\* Math.round(t * 0.1) for an integer t >= 0: the product is never below
\* t / 10, and Math.round takes a half upwards.
RoundTenth(t) == (t + 5) \div 10

\* discount (lines 788-789)
discount(cpn, t) ==
  IF toUpperCase(trim(cpn)) = "VIETKY10" THEN RoundTenth(t) ELSE 0

\* grand without the shipping fee.
grand_NoShipping(t, fee, d) == Max(0, t - d)

\* grand (line 790)
grand(t, fee, d) == Max(0, t + fee - d)

\* ------------------------------ search ---------------------------------
\* [...products] that hands out the catalog array itself.
Spread_SameArray(ps) == [array |-> ps, isProducts |-> TRUE]

\* [...products] (line 216): a new array with the same entries.
Spread(ps) == [array |-> ps, isProducts |-> FALSE]

\* The comparators of lines 222-224.
Compare(srt, a, b) ==
  IF srt = "priceAsc" THEN a.price - b.price
  ELSE IF srt = "priceDesc" THEN b.price - a.price
  ELSE b.rating - a.rating

\* x put into a sorted list behind every entry that does not come after it.
InsertSorted(sorted, x, srt) ==
  LET after == {k \in 1..Len(sorted) : Compare(srt, sorted[k], x) > 0}
      at == IF after = {} THEN Len(sorted) + 1
            ELSE CHOOSE k \in after : \A j \in after : k <= j
  IN SubSeq(sorted, 1, at - 1) \o <<x>> \o SubSeq(sorted, at, Len(sorted))

\* Array.prototype.sort with a comparator: a stable sort.
RECURSIVE Sorted(_, _)
Sorted(list, srt) ==
  IF Len(list) = 0 THEN list
  ELSE InsertSorted(Sorted(SubSeq(list, 1, Len(list) - 1), srt),
                    list[Len(list)], srt)

\* The filters of lines 217-221 on their own.
Filter(list, q, cat) ==
  LET byName == IF q # ""
                  THEN SelectSeq(list, LAMBDA p :
                         includes(toLowerCase(p.name), toLowerCase(q)))
                  ELSE list
  IN IF cat # "all"
       THEN SelectSeq(byName, LAMBDA p : p.category = cat)
       ELSE byName

\* filtered (lines 215-226): the list it returns and what the catalog array
\* holds afterwards. filter returns a new array, sort works in place.
filtered(ps, q, cat, srt) ==
  LET start == Spread(ps)
      list == Filter(start.array, q, cat)
      isProducts == start.isProducts /\ q = "" /\ cat = "all"
      result == IF srt \in {"priceAsc", "priceDesc", "popular"}
                  THEN Sorted(list, srt)
                  ELSE list
  IN [list |-> result,
      products |-> IF isProducts THEN result ELSE ps]

\* What a render shows (lines 210-213, 257, 788-790): the checkout values
\* of cart c and coupon cpn, and the list `shown`, which useMemo computes
\* anew only when products, query, category or sort changed (line 226).
Render(c, cpn, shown) ==
  LET t == total(c)
      fee == shippingFee(t)
      d == discount(cpn, t) IN
  [total |-> t, shippingFee |-> fee, discount |-> d,
   grand |-> grand(t, fee, d), filtered |-> shown]

\* ------------------------------ persistence ----------------------------
Missing == [missing |-> TRUE]

NullText == [null |-> TRUE]

BadText == [bad |-> TRUE]

\* An absent image written as the empty text instead of null.
StrOrNull_EmptyText(v) == [str |-> IF v = NULL THEN "" ELSE v]

StrOrNull(v) == IF v = NULL THEN NullText ELSE [str |-> v]

\* JSON.stringify of the entries of an images array
RECURSIVE StringifyImages(_)
StringifyImages(images) ==
  IF Len(images) = 0 THEN <<>>
  ELSE Append(StringifyImages(SubSeq(images, 1, Len(images) - 1)),
              StrOrNull(images[Len(images)]))

\* JSON.stringify of a cart line or of a product; the keys of a product are
\* emitted in the order of DEFAULT_PRODUCTS (lines 43-50).
StringifyObject(o) ==
  IF "qty" \in DOMAIN o
    THEN [obj |-> << <<"id", [str |-> o.id]>>,
                     <<"name", [str |-> o.name]>>,
                     <<"price", [num |-> o.price]>>,
                     <<"qty", [num |-> o.qty]>>,
                     <<"image", StrOrNull(o.image)>> >>]
    ELSE [obj |-> << <<"id", [str |-> o.id]>>,
                     <<"name", [str |-> o.name]>>,
                     <<"price", [num |-> o.price]>>,
                     <<"category", [str |-> o.category]>>,
                     <<"stock", [num |-> o.stock]>>,
                     <<"rating", [num |-> o.rating]>>,
                     <<"images", [arr |-> StringifyImages(o.images)]>>,
                     <<"description", [str |-> o.description]>> >>]

\* JSON.stringify of the entries of the cart or of the catalog
RECURSIVE StringifyEntries(_)
StringifyEntries(v) ==
  IF Len(v) = 0 THEN <<>>
  ELSE Append(StringifyEntries(SubSeq(v, 1, Len(v) - 1)),
              StringifyObject(v[Len(v)]))

\* JSON.stringify of the cart or of the catalog
JSONstringify(v) == [arr |-> StringifyEntries(v)]

\* JSON.parse throws on this text
Throws(text) == "bad" \in DOMAIN text

\* JSON.parse of a text it accepts; of two members of an object with the
\* same key the later one counts.
RECURSIVE JSONparse(_)
RECURSIVE ParseEntries(_)
RECURSIVE ParseMembers(_)
JSONparse(text) ==
  IF "num" \in DOMAIN text THEN text.num
  ELSE IF "str" \in DOMAIN text THEN text.str
  ELSE IF "null" \in DOMAIN text THEN NULL
  ELSE IF "arr" \in DOMAIN text THEN ParseEntries(text.arr)
  ELSE ParseMembers(text.obj)

ParseEntries(texts) ==
  IF Len(texts) = 0 THEN <<>>
  ELSE Append(ParseEntries(SubSeq(texts, 1, Len(texts) - 1)),
              JSONparse(texts[Len(texts)]))

ParseMembers(pairs) ==
  IF Len(pairs) = 0 THEN <<>>
  ELSE (pairs[Len(pairs)][1] :> JSONparse(pairs[Len(pairs)][2]))
         @@ ParseMembers(SubSeq(pairs, 1, Len(pairs) - 1))

\* localStorage.getItem as JSON.parse reads it: null, the result for an
\* absent key, is parsed as the text "null".
getItem(store, k) == IF store[k] = Missing THEN NullText ELSE store[k]

\* save (line 30) as run by the effects of lines 207-208.
save(store, k, v) == [store EXCEPT ![k] = JSONstringify(v)]

\* load that also takes the fallback for an empty list.
load_EmptyIsFallback(store, k, fallback) ==
  LET text == getItem(store, k) IN
  IF Throws(text) \/ text = NullText \/ text = [arr |-> <<>>]
    THEN fallback
    ELSE JSONparse(text)

\* load (lines 31-38)
load(store, k, fallback) ==
  LET text == getItem(store, k) IN
  IF Throws(text) THEN fallback
  ELSE IF text = NullText THEN fallback
  ELSE JSONparse(text)

EmptyStorage == [vk_cart |-> Missing, vk_products |-> Missing]

\* The uid() results of DEFAULT_PRODUCTS that a mount over this storage can
\* tell apart: all of them when load takes the fallback, otherwise none, and
\* one stands for all.
UidResults(store) ==
  IF store.vk_products \in {Missing, NullText, BadText}
    THEN [1..NumDefaults -> Ids]
    ELSE {[k \in 1..NumDefaults |-> 1]}

\* What the first render and the mount effects make of a storage: the state
\* initialisers of lines 195-202, then the saves of lines 207-208.
Mounted(store, ids) ==
  LET ps == load(store, "vk_products", DEFAULT_PRODUCTS(ids))
      c == load(store, "vk_cart", <<>>) IN
  [products |-> ps, cart |-> c,
   localStorage |-> save(save(store, "vk_cart", c), "vk_products", ps)]

\* ------------------------------ history --------------------------------
\* hist[id]: whether the line for id was built by addToCart calls alone
\* since the cart last had no line for id, and the sum of their quantities.
Untracked == [tracked |-> FALSE, sum |-> 0]

HistAdd(h, id, qty, had) ==
  [h EXCEPT ![id] =
     IF ~had THEN [tracked |-> TRUE, sum |-> qty]
     ELSE IF h[id].tracked THEN [tracked |-> TRUE, sum |-> h[id].sum + qty]
     ELSE Untracked]

\* ------------------------------ behaviour ------------------------------
\* First visit: both keys are missing, load returns its fallback
\* (lines 195-202) and the mount effects persist it (lines 207-208).
Init ==
  \E ids \in UidResults(EmptyStorage) :
    /\ products = Mounted(EmptyStorage, ids).products
    /\ cart = Mounted(EmptyStorage, ids).cart
    /\ localStorage = Mounted(EmptyStorage, ids).localStorage
    /\ ev = NoEvent
    /\ hist = [id \in Ids |-> Untracked]
    /\ query = ""
    /\ category = "all"
    /\ sort = "popular"
    /\ coupon = ""
    /\ view = Render(cart, coupon,
                     filtered(products, query, category, sort).list)

\* setCart(...) followed by the effect of line 207
SetCart_NoEffect(next) ==
  /\ cart' = next
  /\ UNCHANGED <<products, localStorage, query, category, sort, coupon>>
  /\ view' = Render(next, coupon, view.filtered)

SetCart(next) ==
  /\ cart' = next
  /\ localStorage' = save(localStorage, "vk_cart", next)
  /\ UNCHANGED <<products, query, category, sort, coupon>>
  /\ view' = Render(next, coupon, view.filtered)

\* setProducts that also drops the cart lines of products no longer listed
\* and refreshes the others from the catalog.
SetProducts_SyncCart(next) ==
  /\ products' = filtered(next, query, category, sort).products
  /\ localStorage' = save(localStorage, "vk_products", next)
  /\ cart' = [k \in 1..Len(SelectSeq(cart, LAMBDA i : i.id \in IdsOf(next))) |->
               LET i == SelectSeq(cart, LAMBDA x : x.id \in IdsOf(next))[k]
                   p == next[FindIndex(next, i.id)] IN
               [i EXCEPT !.name = p.name, !.price = p.price,
                         !.image = FirstImage(p)]]
  /\ UNCHANGED <<query, category, sort, coupon>>
  /\ view' = Render(cart', coupon,
                     filtered(next, query, category, sort).list)

\* setProducts(...) followed by the render, which computes filtered anew
\* (products is one of its dependencies, line 226), and by the effect of
\* line 208
SetProducts(next) ==
  LET run == filtered(next, query, category, sort) IN
  /\ products' = run.products
  /\ localStorage' = save(localStorage, "vk_products", next)
  /\ UNCHANGED <<cart, query, category, sort, coupon>>
  /\ view' = Render(cart, coupon, run.list)

\* "Them vao gio" on a product card (line 465) or in the quick view
\* (lines 597, 603); addToCart(p, qty) itself takes any quantity.
AddToCart ==
  \E k \in 1..Len(products), qty \in QtyArgs :
    LET p == products[k] IN
    /\ QtyOf(cart, p.id) + qty <= MaxQty
    /\ SetCart(addToCart(cart, p, qty))
    /\ ev' = Event("addToCart", p.id, qty, NoProduct, HasLine(cart, p.id))
    /\ hist' = HistAdd(hist, p.id, qty, HasLine(cart, p.id))

\* "Xoa" in the cart drawer (line 667)
RemoveFromCart ==
  \E id \in Ids :
    /\ SetCart(removeFromCart(cart, id))
    /\ ev' = Event("removeFromCart", id, 0, NoProduct, HasLine(cart, id))
    /\ hist' = [hist EXCEPT ![id] = Untracked]

UpdateQty(id, qty) ==
  /\ SetCart(updateQty(cart, id, qty))
  /\ ev' = Event("updateQty", id, qty, NoProduct, HasLine(cart, id))
  /\ hist' = [hist EXCEPT ![id] = Untracked]

\* the "-" control (line 648)
DecrementQty ==
  \E k \in 1..Len(cart) : UpdateQty(cart[k].id, cart[k].qty - 1)

\* the number input (line 655)
InputQty ==
  \E id \in Ids, qty \in (0 - 1)..MaxQty : UpdateQty(id, qty)

\* the "+" control (line 660)
IncrementQty ==
  \E k \in 1..Len(cart) :
    /\ cart[k].qty + 1 <= MaxQty
    /\ UpdateQty(cart[k].id, cart[k].qty + 1)

\* onOrderPlaced that takes only the first line out of the cart.
PlaceOrder_FirstLine ==
  /\ SetCart(IF cart = <<>> THEN <<>> ELSE Tail(cart))
  /\ ev' = Event("placeOrder", 0, 0, NoProduct, cart # <<>>)
  /\ hist' = [id \in Ids |-> Untracked]

\* onOrderPlaced (lines 712-716)
PlaceOrder ==
  /\ SetCart(<<>>)
  /\ ev' = Event("placeOrder", 0, 0, NoProduct, cart # <<>>)
  /\ hist' = [id \in Ids |-> Untracked]

\* What uid() can return in upsertProduct(list, p) as far as the result
\* tells: it is called only when no entry has p's identifier (line 275).
UidCalls(list, id) == IF FindIndex(list, id) # 0 THEN {id} ELSE Ids

\* onSave = upsertProduct (lines 731, 939)
UpsertProduct ==
  \E id \in Ids, c \in DraftContents : \E fresh \in UidCalls(products, id) :
    LET p == WithId(c, id) IN
    /\ FindIndex(products, id) # 0 \/ Len(products) < MaxCatalog
    /\ SetProducts(upsertProduct(products, p, fresh))
    /\ ev' = Event("upsertProduct", id, 0, p, id \in IdsOf(products))
    /\ UNCHANGED hist

\* onDelete = deleteProduct (lines 732, 981)
DeleteProduct ==
  \E id \in Ids :
    /\ SetProducts(deleteProduct(products, id))
    /\ ev' = Event("deleteProduct", id, 0, NoProduct, id \in IdsOf(products))
    /\ UNCHANGED hist

\* A page reload: the component is built again from the storage, with new
\* uid() results in DEFAULT_PRODUCTS, and every other state starts over.
Reload ==
  \E ids \in UidResults(localStorage) :
    LET mounted == Mounted(localStorage, ids) IN
    /\ products' = mounted.products
    /\ cart' = mounted.cart
    /\ localStorage' = mounted.localStorage
    /\ ev' = Event("reload", 0, 0, NoProduct, FALSE)
    /\ query' = ""
    /\ category' = "all"
    /\ sort' = "popular"
    /\ coupon' = ""
    /\ view' = Render(cart', "",
                      filtered(products', "", "all", "popular").list)
    /\ UNCHANGED hist

NextCart ==
  \/ AddToCart
  \/ RemoveFromCart
  \/ DecrementQty
  \/ InputQty
  \/ IncrementQty
  \/ PlaceOrder

NextCatalog ==
  \/ UpsertProduct
  \/ DeleteProduct

Next ==
  \/ NextCart
  \/ NextCatalog

\* The whole store.
Spec == Init /\ [][Next]_vars

\* The cart store over the default catalog.
SpecCart == Init /\ [][NextCart]_vars

\* A first visit on which the visitor may already have pressed "Them vao
\* gio" (line 465) on the first card.
InitCatalog ==
  \E ids \in [1..NumDefaults -> Ids], added \in BOOLEAN :
    LET list == DEFAULT_PRODUCTS(ids)
        c == IF added THEN addToCart(<<>>, list[1], 1) ELSE <<>> IN
    /\ products = list
    /\ cart = c
    /\ localStorage = save(save(EmptyStorage, "vk_cart", c),
                           "vk_products", list)
    /\ query = ""
    /\ category = "all"
    /\ sort = "popular"
    /\ coupon = ""
    /\ view = Render(cart, coupon,
                     filtered(products, query, category, sort).list)
    /\ ev = IF added
              THEN Event("addToCart", list[1].id, 1, NoProduct, FALSE)
              ELSE NoEvent
    /\ hist = IF added
                THEN HistAdd([id \in Ids |-> Untracked], list[1].id, 1, FALSE)
                ELSE [id \in Ids |-> Untracked]

\* The catalog store, entered with a cart the cart store has filled.
SpecCatalog == InitCatalog /\ [][NextCatalog]_vars

\* The catalog is DEFAULT_PRODUCTS as some first visit built it.
DefaultCatalog ==
  /\ Len(products) = NumDefaults
  /\ \A k \in 1..NumDefaults :
       products[k] = WithId(DefaultContent(k), products[k].id)

\* The cart is empty or holds one line of quantity 1.
SmallCart == Len(cart) = 0 \/ (Len(cart) = 1 /\ cart[1].qty = 1)

\* Both stores and the page reload. The cart handlers that add or change a
\* quantity are explored over the default catalog, the admin handlers over a
\* cart of at most one line, and onSave on the default catalog only;
\* updateQty is called by the "-" and "+" controls.
NextStore ==
  \/ DefaultCatalog /\ AddToCart
  \/ RemoveFromCart
  \/ DefaultCatalog /\ DecrementQty
  \/ DefaultCatalog /\ IncrementQty
  \/ PlaceOrder
  \/ SmallCart /\ DefaultCatalog /\ UpsertProduct
  \/ SmallCart /\ DeleteProduct
  \/ Reload

SpecStore == Init /\ [][NextStore]_vars

\* What a visit can find under vk_cart: nothing, the text null, a text that
\* is not JSON, or a cart an earlier visit saved.
StoredCarts ==
  {Missing, NullText, BadText, JSONstringify(<<>>)}
    \cup {JSONstringify(addToCart(<<>>, WithId(DefaultContent(1), id), qty)) :
            id \in Ids, qty \in 1..MaxQty}

\* What a visit can find under vk_products.
StoredCatalogs ==
  {Missing, NullText, BadText, JSONstringify(<<>>)}
    \cup {JSONstringify(DEFAULT_PRODUCTS(ids)) :
            ids \in [1..NumDefaults -> Ids]}

\* The page before its first render, over any storage.
InitLoad ==
  \E c \in StoredCarts, ps \in StoredCatalogs :
    /\ localStorage = [vk_cart |-> c, vk_products |-> ps]
    /\ products = <<>>
    /\ cart = <<>>
    /\ ev = NoEvent
    /\ hist = [id \in Ids |-> Untracked]
    /\ query = ""
    /\ category = "all"
    /\ sort = "popular"
    /\ coupon = ""
    /\ view = Render(cart, coupon,
                     filtered(products, query, category, sort).list)

\* load("vk_products", DEFAULT_PRODUCTS) of lines 195-197
LoadProducts ==
  \E ids \in [1..NumDefaults -> Ids] :
    /\ products' = load(localStorage, "vk_products", DEFAULT_PRODUCTS(ids))
    /\ ev' = Event("loadProducts", 0, 0, NoProduct, FALSE)
    /\ UNCHANGED <<cart, localStorage, hist, query, category, sort, coupon,
                   view>>

\* load("vk_cart", []) of line 202
LoadCart ==
  /\ cart' = load(localStorage, "vk_cart", <<>>)
  /\ ev' = Event("loadCart", 0, 0, NoProduct, FALSE)
  /\ UNCHANGED <<products, localStorage, hist, query, category, sort, coupon,
                 view>>

NextLoad ==
  \/ LoadProducts
  \/ LoadCart

\* load applied to every storage content.
SpecLoad == InitLoad /\ [][NextLoad]_vars

\* Prices of products the admin form has listed (line 877), a default one
\* among them.
CheckoutPrices == {5, 169000, 250000, 500001}

\* What the visitor types in the coupon field.
CouponInputs ==
  {"", "VIETKY10", "vietky10", " VIETKY10 ", "VietKy10", "VIETKY1",
   "VIET KY10", "SALE10"}

\* The carts of up to NumIds lines, one product each.
CheckoutCarts ==
  UNION {[1..n -> CheckoutPrices \X (1..MaxQty)] : n \in 0..NumIds}

\* The checkout drawer opened on a cart filled earlier.
InitCheckout ==
  \E pq \in CheckoutCarts :
    /\ products =
         DEFAULT_PRODUCTS([k \in 1..NumDefaults |-> ((k - 1) % NumIds) + 1])
    /\ cart = [k \in 1..Len(pq) |->
                 [id |-> k, name |-> "Ao moi", price |-> pq[k][1],
                  qty |-> pq[k][2], image |-> NULL]]
    /\ localStorage = save(save(EmptyStorage, "vk_cart", cart),
                           "vk_products", products)
    /\ ev = NoEvent
    /\ hist = [id \in Ids |-> Untracked]
    /\ query = ""
    /\ category = "all"
    /\ sort = "popular"
    /\ coupon = ""
    /\ view = Render(cart, coupon,
                     filtered(products, query, category, sort).list)

\* typing in the coupon field (line 797)
SetCoupon ==
  \E text \in CouponInputs :
    /\ coupon' = text
    /\ ev' = Event("setCoupon", 0, 0, NoProduct, FALSE)
    /\ view' = Render(cart, text, view.filtered)
    /\ UNCHANGED <<products, cart, localStorage, hist, query, category, sort>>

NextCheckout ==
  \/ SetCoupon
  \/ RemoveFromCart
  \/ DecrementQty
  \/ IncrementQty
  \/ PlaceOrder

\* The cart drawer and the checkout drawer.
SpecCheckout == InitCheckout /\ [][NextCheckout]_vars

\* What the visitor types in the search field.
QueryInputs == {"", "ao", "AO", "viet ky", "xyz"}

\* The options of the category select (lines 311-315).
CategoryOptions == {"all", "Ao thun", "Phu kien"}

\* The options of the sort select (lines 320-324).
SortOptions == {"popular", "priceAsc", "priceDesc"}

\* The default catalog and the catalogs one admin operation makes of it.
QueryCatalogs ==
  LET base == DEFAULT_PRODUCTS([k \in 1..NumDefaults |->
                                 ((k - 1) % NumIds) + 1]) IN
  {base}
    \cup {deleteProduct(base, id) : id \in Ids}
    \cup {upsertProduct(base, WithId(c, (NumDefaults % NumIds) + 1), fresh) :
            c \in DraftContents, fresh \in Ids}

\* The product grid over a catalog the admin has worked on.
InitQuery ==
  \E ps \in QueryCatalogs :
    /\ products = ps
    /\ cart = <<>>
    /\ localStorage = save(save(EmptyStorage, "vk_cart", cart),
                           "vk_products", products)
    /\ ev = NoEvent
    /\ hist = [id \in Ids |-> Untracked]
    /\ query = ""
    /\ category = "all"
    /\ sort = "popular"
    /\ coupon = ""
    /\ view = Render(cart, coupon,
                     filtered(products, query, category, sort).list)

\* A change of a search control followed by the render, which computes
\* filtered anew (line 226); no effect runs, as neither setCart nor
\* setProducts was called.
SetControls(op, q, cat, srt) ==
  /\ query' = q
  /\ category' = cat
  /\ sort' = srt
  /\ products' = filtered(products, q, cat, srt).products
  /\ view' = Render(cart, coupon, filtered(products, q, cat, srt).list)
  /\ ev' = Event(op, 0, 0, NoProduct, FALSE)
  /\ UNCHANGED <<cart, localStorage, hist, coupon>>

\* typing in the search field (lines 306, 419)
SetQuery == \E q \in QueryInputs : SetControls("setQuery", q, category, sort)

\* the category select (lines 310, 423)
SetCategory ==
  \E cat \in CategoryOptions : SetControls("setCategory", query, cat, sort)

\* the sort select (line 319)
SetSort == \E srt \in SortOptions : SetControls("setSort", query, category, srt)

NextQuery ==
  \/ SetQuery
  \/ SetCategory
  \/ SetSort

\* The search controls over the catalogs.
SpecQuery == InitQuery /\ [][NextQuery]_vars

\* ------------------------------ cart store -----------------------------
Count(list, id) == Cardinality({k \in 1..Len(list) : list[k].id = id})

\* Number of entries of list[1..i] whose identifier is not id.
KeptUpTo(list, id, i) == Cardinality({j \in 1..i : list[j].id # id})

\* after is before without its entries for id: the other entries are all
\* there, unchanged and in the same order.
RemovesOnly(before, after, id) ==
  /\ Len(after) = KeptUpTo(before, id, Len(before))
  /\ \A i \in 1..Len(before) :
       before[i].id # id => after[KeptUpTo(before, id, i)] = before[i]

\* C1: no two line items of the cart have the same product identifier.
C1_CartIdsUnique ==
  \A i, j \in 1..Len(cart) : cart[i].id = cart[j].id => i = j

\* a product already in a cart of several lines has just been added again
C1_Witness ==
  /\ ev.op = "addToCart"
  /\ ev.hit
  /\ Len(cart) >= 2

\* C2: while only addToCart calls have touched the line of an identifier
\* since the cart had no line for it, the cart has exactly one line for it
\* and its quantity is the sum of the quantities of those calls.
C2_AddSum ==
  \A id \in Ids :
    hist[id].tracked =>
      /\ Count(cart, id) = 1
      /\ QtyOf(cart, id) = hist[id].sum

\* a second addToCart for the same identifier has just been merged
C2_Witness ==
  /\ ev.op = "addToCart"
  /\ ev.hit
  /\ ev.qty # 0
  /\ hist[ev.id].tracked
  /\ hist[ev.id].sum # ev.qty

\* C3: every line item has a quantity of at least 1.
C3_QtyAtLeastOne ==
  \A k \in 1..Len(cart) : cart[k].qty >= 1

\* C4: updateQty(id, q) stores max(1, q) in the line for id, changes nothing
\* else of that line, leaves the other lines as they are and never removes
\* a line.
C4_UpdateQtyClamps ==
  [][ev'.op = "updateQty" =>
       /\ Len(cart') = Len(cart)
       /\ \A k \in 1..Len(cart) :
            IF cart[k].id = ev'.id
              THEN /\ cart'[k].qty = (IF ev'.qty <= 0 THEN 1 ELSE ev'.qty)
                   /\ cart'[k] = [cart[k] EXCEPT !.qty = cart'[k].qty]
              ELSE cart'[k] = cart[k]]_vars

\* updateQty with a quantity of 0 or less has run on a line of the cart
C4_Witness ==
  /\ ev.op = "updateQty"
  /\ ev.hit
  /\ ev.qty <= 0
  /\ QtyOf(cart, ev.id) = 1

C6_CatalogKeepsCart ==
  [][ev'.op \in {"upsertProduct", "deleteProduct"} => cart' = cart]_vars

\* a product with a line in the cart has been replaced by one of another
\* name, and the line still carries the old name
C6_Witness ==
  /\ ev.op = "upsertProduct"
  /\ ev.hit
  /\ HasLine(cart, ev.id)
  /\ products[FindIndex(products, ev.id)].name # cart[FindIndex(cart, ev.id)].name

\* C7: no two products of the catalog have the same identifier.
C7_ProductIdsUnique ==
  \A i, j \in 1..Len(products) : products[i].id = products[j].id => i = j

\* C8: upsert of a product whose identifier is in the catalog puts the given
\* product at the position of the entry with that identifier; the length and
\* every other entry are unchanged.
C8_UpsertReplaces ==
  [][(ev'.op = "upsertProduct" /\ ev'.hit) =>
       /\ Len(products') = Len(products)
       /\ \E idx \in 1..Len(products) :
            /\ products[idx].id = ev'.p.id
            /\ products'[idx] = ev'.p
            /\ \A k \in 1..Len(products) :
                 k # idx => products'[k] = products[k]]_vars

\* a listed product that is not the first has been replaced by different
\* content
C8_Witness ==
  /\ ev.op = "upsertProduct"
  /\ ev.hit
  /\ Len(products) >= 2
  /\ products[1].id # ev.id
  /\ \E k \in 2..Len(products) : products[k] = ev.p
  /\ ev.p.name = "Ao moi"

\* C9: upsert of a product whose identifier is not in the catalog puts it in
\* front under an identifier that no product of the catalog has; the
\* products already there follow unchanged, in their order.
C9_UpsertPrepends ==
  [][(ev'.op = "upsertProduct" /\ ~ev'.hit) =>
       /\ Len(products') = Len(products) + 1
       /\ Tail(products') = products
       /\ products'[1] = [ev'.p EXCEPT !.id = products'[1].id]
       /\ products'[1].id \notin IdsOf(products)]_vars

\* C10: delete(id) without a product of that identifier leaves the catalog
\* the same sequence; otherwise it takes away the product of that identifier
\* and keeps every other product unchanged and in order.
C10_DeleteFrame ==
  [][ev'.op = "deleteProduct" =>
       /\ RemovesOnly(products, products', ev'.id)
       /\ ev'.id \notin IdsOf(products')
       /\ Count(products, ev'.id) = 1 => Len(products') = Len(products) - 1
       /\ ~ev'.hit => products' = products]_vars

\* a product has been deleted and at least two others are left
C10_Witness ==
  /\ ev.op = "deleteProduct"
  /\ ev.hit
  /\ Len(products) >= 2

\* ------------------------------ persistence ----------------------------
\* C11: after every cart mutation (addToCart, removeFromCart, updateQty,
\* order placement) and every catalog mutation (upsert, delete) the text
\* stored under vk_cart is the in-memory cart and the text stored under
\* vk_products is the in-memory catalog: no state in which a handler can
\* run holds an unflushed mutation.
C11_WriteThrough ==
  /\ localStorage.vk_cart # Missing
  /\ localStorage.vk_products # Missing
  /\ ~Throws(localStorage.vk_cart)
  /\ ~Throws(localStorage.vk_products)
  /\ JSONparse(localStorage.vk_cart) = cart
  /\ JSONparse(localStorage.vk_products) = products

\* A catalog mutation has run on a catalog that is no longer the default
\* one while the cart holds a line.
C11_Witness ==
  /\ ev.op \in {"upsertProduct", "deleteProduct"}
  /\ ~DefaultCatalog
  /\ Len(cart) >= 1

FallbackDue(text) == text = Missing \/ text = BadText \/ text = NullText

\* C13: load returns the fallback, and writes nothing to the storage, when
\* the key is missing, the stored text cannot be deserialized or the stored
\* value is null; in every other case it returns the stored value.
C13_LoadFallback ==
  [][/\ ev'.op = "loadCart" =>
          /\ localStorage' = localStorage
          /\ cart' = IF FallbackDue(localStorage.vk_cart)
                       THEN <<>>
                       ELSE JSONparse(localStorage.vk_cart)
     /\ ev'.op = "loadProducts" =>
          /\ localStorage' = localStorage
          /\ IF FallbackDue(localStorage.vk_products)
               THEN \E ids \in [1..NumDefaults -> Ids] :
                      products' = DEFAULT_PRODUCTS(ids)
               ELSE products' = JSONparse(localStorage.vk_products)]_vars

\* load has answered a storage whose catalog text cannot be parsed and
\* whose cart text is a saved cart.
C13_Witness ==
  /\ ev.op = "loadCart"
  /\ localStorage.vk_products = BadText
  /\ Len(products) = NumDefaults
  /\ ~FallbackDue(localStorage.vk_cart)
  /\ Len(cart) = 1

\* ------------------------------ checkout -------------------------------
\* The sum of price times quantity over the lines, counted line by line.
Subtotal ==
  LET RECURSIVE UpTo(_)
      UpTo(k) == IF k = 0 THEN 0
                 ELSE UpTo(k - 1) + cart[k].price * cart[k].qty
  IN UpTo(Len(cart))

\* C14: the shipping fee shown is 0 exactly when the subtotal (sum of price
\* times quantity over the lines, before any discount) is strictly greater
\* than 500000, and 30000 otherwise: 500000 gives 30000, 500001 gives 0.
C14_ShippingFee ==
  /\ view.total = Subtotal
  /\ view.shippingFee = 0 <=> Subtotal > 500000
  /\ view.shippingFee # 0 => view.shippingFee = 30000
  /\ Subtotal = 500000 => view.shippingFee = 30000
  /\ Subtotal = 500001 => view.shippingFee = 0

\* The footer shows a cart of exactly 500000.
C14_Witness ==
  /\ Subtotal = 500000
  /\ view.shippingFee = 30000
  /\ ev.op # "init"

\* d is n / 10 rounded to the nearest integer, a half going up.
IsRoundedTenth(d, n) == 10 * d <= n + 5 /\ n + 5 < 10 * d + 10

\* C15: the discount shown is round(subtotal * 0.10) when the coupon field,
\* trimmed and in upper case, is "VIETKY10" (so "vietky10", " VIETKY10 " and
\* "VietKy10" qualify) and 0 for every other text, the empty one included.
C15_Discount ==
  /\ coupon \in {"VIETKY10", "vietky10", " VIETKY10 ", "VietKy10"} =>
       IsRoundedTenth(view.discount, Subtotal)
  /\ coupon \in {"", "VIETKY1", "VIET KY10", "SALE10"} => view.discount = 0
  /\ IF toUpperCase(trim(coupon)) = "VIETKY10"
       THEN IsRoundedTenth(view.discount, Subtotal)
       ELSE view.discount = 0

\* The code typed between blanks has taken a tenth off a cart.
C15_Witness ==
  /\ ev.op = "setCoupon"
  /\ coupon = " VIETKY10 "
  /\ view.discount > 0

\* C16: the grand total shown is max(0, subtotal + shippingFee - discount)
\* and never negative; one line of price 169000 and quantity 2 with coupon
\* "VIETKY10" gives 338000, 30000, 33800 and 334200.
C16_GrandTotal ==
  /\ view.grand >= 0
  /\ view.grand = Max(0, Subtotal + view.shippingFee - view.discount)
  /\ (/\ Len(cart) = 1
      /\ cart[1].price = 169000
      /\ cart[1].qty = 2
      /\ coupon = "VIETKY10") =>
       /\ view.total = 338000
       /\ view.shippingFee = 30000
       /\ view.discount = 33800
       /\ view.grand = 334200

\* The footer shows the cart of one line 169000 x 2 under "VIETKY10".
C16_Witness ==
  /\ Len(cart) = 1
  /\ cart[1].price = 169000
  /\ cart[1].qty = 2
  /\ coupon = "VIETKY10"
  /\ view.grand = 334200

\* ------------------------------ search ---------------------------------
Members(list) == {list[k] : k \in 1..Len(list)}

\* C17: filtering is idempotent and non-mutating: the search-text and
\* category filter applied again to the list just shown yields the same set
\* of products, and computing the filtered and sorted list leaves the
\* catalog sequence as it was.
C17_FilterIdempotent ==
  [][ev'.op \in {"setQuery", "setCategory", "setSort"} =>
       /\ products' = products
       /\ Members(Filter(view'.filtered, query', category'))
            = Members(view'.filtered)
       /\ Members(filtered(view'.filtered, query', category', sort').list)
            = Members(view'.filtered)
       /\ Members(view'.filtered) \subseteq Members(products)]_vars

\* A search text in other letter case than the names has kept some
\* products of the catalog and left others out.
C17_Witness ==
  /\ ev.op \in {"setQuery", "setCategory", "setSort"}
  /\ query = "AO"
  /\ Len(view.filtered) >= 1
  /\ Len(view.filtered) < Len(products)

\* C18: placing an order empties the cart whatever it held and whatever the
\* coupon field holds, the text stored under vk_cart becomes the empty
\* sequence, and the catalog, in memory and under vk_products, is unchanged.
C18_OrderEmptiesCart ==
  [][ev'.op = "placeOrder" =>
       /\ cart' = <<>>
       /\ localStorage'.vk_cart = [arr |-> <<>>]
       /\ load(localStorage', "vk_cart", cart) = <<>>
       /\ products' = products
       /\ localStorage'.vk_products = localStorage.vk_products]_vars

\* An order has been placed on a cart that held lines, a coupon typed in.
C18_Witness ==
  /\ ev.op = "placeOrder"
  /\ ev.hit
  /\ cart = <<>>
  /\ coupon = "vietky10"

====
